---- MODULE Spec2Model ----
(***************************************************************************)
(* Model of knowledge-bot/services/reranker/app/main.py: a FastAPI         *)
(* application with one endpoint, POST /rerank, whose handler `rerank` is  *)
(* a plain `def`.  FastAPI runs such handlers on worker threads, so        *)
(* several invocations of `rerank` can be in progress at once; they share  *)
(* the module-level tokenizer `tok` and model `mdl`.                       *)
(***************************************************************************)
EXTENDS Integers, Sequences, FiniteSets, TLC

(* ------------------------------ bounds --------------------------------- *)
\* number of request slots (requests that can be in flight in one run)
NumReqs == 2
\* longest passages list a request carries
MaxPassages == 2

\* Configuration options named by the specification (max_batch_size,
\* max_queue_depth); main.py defines neither of them.
max_batch_size == 1
max_queue_depth == 1

Reqs == 1..NumReqs
\* query strings and passage strings, as small integers (no string is both)
Queries == {3}
Passages == {1, 2}

PassageLists == UNION {[1..n -> Passages] : n \in 0..MaxPassages}
Items == [query : Queries, passages : PassageLists]
NoItem == [query |-> 0, passages |-> <<>>]

\* candidate weights of the pretrained model: the logit of a row is
\* wq * query + wp * passage, so wp = 0 makes every passage of a request tie
Weights == {[wq |-> 1, wp |-> w] : w \in {0, 1}}

VARIABLES
    model_name,  \* module-level: name of the pretrained checkpoint
    tok,         \* module-level: the tokenizer loaded for model_name
    mdl,         \* module-level: the model (its weights)
    pc,          \* per request: position of its handler
    item,        \* per request: the parsed body (query, passages)
    pairs,       \* per call local: list of (query, passage)
    enc,         \* per call local: encoded rows
    resp,        \* per request: the HTTP response sent
    nResp,       \* per request: number of responses sent
    tokCalled,   \* per request: tok was invoked by its handler
    mdlCalled    \* per request: mdl was invoked by its handler

vars == <<model_name, tok, mdl, pc, item, pairs, enc, resp, nResp,
          tokCalled, mdlCalled>>
globals == <<model_name, tok, mdl>>

NoResp == [status |-> 0, order |-> <<>>, scores |-> <<>>]
ErrorResp == [status |-> 500, order |-> <<>>, scores |-> <<>>]

(* --------------------------- pure functions ---------------------------- *)
\* pairs = [(item.query, p) for p in item.passages]
Pairs(it) == [i \in 1..Len(it.passages) |-> <<it.query, it.passages[i]>>]

\* Tok with the text_pair list taken in the opposite order
TokMisaligned(ps) ==
    LET qs == [i \in 1..Len(ps) |-> ps[i][1]]
        ts == [i \in 1..Len(ps) |-> ps[Len(ps) + 1 - i][2]]
    IN [i \in 1..Len(qs) |-> [text |-> qs[i], text_pair |-> ts[i]]]

\* tok([q for q,_ in pairs], [p for _,p in pairs], ...): row i encodes the
\* i-th text together with the i-th text_pair
Tok(ps) ==
    LET qs == [i \in 1..Len(ps) |-> ps[i][1]]
        ts == [i \in 1..Len(ps) |-> ps[i][2]]
    IN [i \in 1..Len(qs) |-> [text |-> qs[i], text_pair |-> ts[i]]]

\* one logit per encoded row
Logit(m, row) == m.wq * row.text + m.wp * row.text_pair

\* Forward for a model with two labels: view(-1) flattens two logits per row
ForwardTwoLabels(m, e) ==
    [i \in 1..(2 * Len(e)) |-> Logit(m, e[(i + 1) \div 2])]

\* mdl(**enc).logits.view(-1).tolist()
Forward(m, e) == [i \in 1..Len(e) |-> Logit(m, e[i])]

\* range(n), as the list 0, 1, ..., n-1
PyRange(n) == [i \in 1..n |-> i - 1]

Reverse(s) == [i \in 1..Len(s) |-> s[Len(s) + 1 - i]]

\* place of s[i] in a stable ascending sort of s by key: behind every
\* element with a smaller key and behind the equal-keyed elements before it
Rank(i, s, key) ==
    Cardinality({j \in 1..Len(s) :
        \/ key[s[j] + 1] < key[s[i] + 1]
        \/ (key[s[j] + 1] = key[s[i] + 1] /\ j < i)}) + 1

\* list.sort: stable, ascending by key
StableSortAsc(s, key) ==
    [p \in 1..Len(s) |-> s[CHOOSE i \in 1..Len(s) : Rank(i, s, key) = p]]

\* SortedReverse as an ascending sort that is reversed afterwards
SortedThenReversed(scores) ==
    CHOOSE order \in
        {Reverse(asc) : asc \in {StableSortAsc(PyRange(Len(scores)), scores)}} :
        TRUE

\* sorted(range(len(scores)), key=lambda i: scores[i], reverse=True):
\* the list is reversed, sorted stably in ascending key order and reversed
\* again (each intermediate list is one value of its singleton set)
SortedReverse(scores) ==
    CHOOSE order \in
        {Reverse(asc) : asc \in
            {StableSortAsc(rev, scores) : rev \in {Reverse(PyRange(Len(scores)))}}} :
        TRUE

\* return {"order": order, "scores": scores}
Response(order, scores) ==
    [status |-> 200, order |-> order, scores |-> scores]

\* lines 21-23 for the rows e of one call: scores, then order, then the dict
Rerank(m, e) ==
    CHOOSE ret \in
        UNION {{Response(order, scores) : order \in {SortedReverse(scores)}} :
                  scores \in {Forward(m, e)}} :
        TRUE

(* ------------------------------- state --------------------------------- *)
Init ==
    /\ model_name = "BAAI/bge-reranker-v2-m3"
    /\ tok = "AutoTokenizer"
    /\ mdl \in Weights
    /\ pc = [r \in Reqs |-> "idle"]
    /\ item = [r \in Reqs |-> NoItem]
    /\ pairs = [r \in Reqs |-> <<>>]
    /\ enc = [r \in Reqs |-> <<>>]
    /\ resp = [r \in Reqs |-> NoResp]
    /\ nResp = [r \in Reqs |-> 0]
    /\ tokCalled = [r \in Reqs |-> FALSE]
    /\ mdlCalled = [r \in Reqs |-> FALSE]

\* POST /rerank with a body that validates as Item: the request is accepted
\* and its handler is handed to a worker thread.  Nothing bounds how many
\* requests are accepted.
Accept(r, it) ==
    /\ pc[r] = "idle"
    /\ item' = [item EXCEPT ![r] = it]
    /\ pc' = [pc EXCEPT ![r] = "accepted"]
    /\ UNCHANGED <<globals, pairs, enc, resp, nResp, tokCalled, mdlCalled>>

\* lines 18-21, up to the call of mdl: pairs are built and handed to the
\* tokenizer and the forward pass of the shared model begins on this worker
\* thread.  No check on item.passages comes first and no lock or queue is
\* taken: every local is private to the call, so the lines are one step.
RerankCall(r) ==
    /\ pc[r] = "accepted"
    /\ pc' = [pc EXCEPT ![r] = "inmdl"]
    /\ tokCalled' = [tokCalled EXCEPT ![r] = TRUE]
    /\ mdlCalled' = [mdlCalled EXCEPT ![r] = TRUE]
    /\ UNCHANGED <<globals, item, resp, nResp>>
    /\ pairs' = [pairs EXCEPT ![r] = Pairs(item[r])]
    /\ enc' = [enc EXCEPT ![r] = Tok(Pairs(item[r]))]

\* Raise that answers with whatever rows but the last would have scored
RaisePartial(r) ==
    /\ resp' = [resp EXCEPT ![r] =
            Rerank(mdl, SubSeq(enc[r], 1, Len(enc[r]) - 1))]
    /\ nResp' = [nResp EXCEPT ![r] = @ + 1]
    /\ pc' = [pc EXCEPT ![r] = "failed"]

\* an exception leaves the handler: the framework answers 500 and the
\* handler is over
Raise(r) ==
    /\ pc' = [pc EXCEPT ![r] = "failed"]
    /\ nResp' = [nResp EXCEPT ![r] = @ + 1]
    /\ resp' = [resp EXCEPT ![r] = ErrorResp]

\* line 19 on an empty batch: whether the tokenizer returns an empty
\* encoding (RerankCall) or raises depends on the installed library
RerankTokenizeRaise(r) ==
    /\ pc[r] = "accepted"
    /\ item[r].passages = <<>>
    /\ pairs' = [pairs EXCEPT ![r] = Pairs(item[r])]
    /\ tokCalled' = [tokCalled EXCEPT ![r] = TRUE]
    /\ Raise(r)
    /\ UNCHANGED <<globals, item, enc, mdlCalled>>

\* MdlReturn reading the rows of whichever call is inside the model, as if
\* enc were module-level
MdlReturnShared(r) ==
    /\ pc[r] = "inmdl"
    /\ \E s \in Reqs :
        /\ pc[s] = "inmdl"
        /\ resp' = [resp EXCEPT ![r] = Rerank(mdl, enc[s])]
    /\ nResp' = [nResp EXCEPT ![r] = @ + 1]
    /\ pc' = [pc EXCEPT ![r] = "done"]
    /\ UNCHANGED <<globals, item, pairs, enc, tokCalled, mdlCalled>>

\* lines 21-23: the forward pass returns the logits of this call's rows; the
\* handler sorts and returns
MdlReturn(r) ==
    /\ pc[r] = "inmdl"
    /\ pc' = [pc EXCEPT ![r] = "done"]
    /\ nResp' = [nResp EXCEPT ![r] = @ + 1]
    /\ UNCHANGED <<globals, item, pairs, enc, tokCalled, mdlCalled>>
    /\ resp' = [resp EXCEPT ![r] = Rerank(mdl, enc[r])]

\* MdlRaise whose exception is swallowed: no response is ever sent
MdlRaiseDropped(r) ==
    /\ pc[r] = "inmdl"
    /\ pc' = [pc EXCEPT ![r] = "dropped"]
    /\ UNCHANGED <<globals, item, pairs, enc, resp, nResp, tokCalled, mdlCalled>>

\* line 21: the forward pass raises (out of memory, bad shape, ...)
MdlRaise(r) ==
    /\ pc[r] = "inmdl"
    /\ Raise(r)
    /\ UNCHANGED <<globals, item, pairs, enc, tokCalled, mdlCalled>>

Next ==
    \/ \E r \in Reqs, it \in Items : Accept(r, it)
    \/ \E r \in Reqs : RerankCall(r)
    \/ \E r \in Reqs : RerankTokenizeRaise(r)
    \/ \E r \in Reqs : MdlReturn(r)
    \/ \E r \in Reqs : MdlRaise(r)

Spec == Init /\ [][Next]_vars

\* every worker thread that can take a step eventually takes one, and a
\* forward pass either returns or raises
Running(r) ==
    RerankCall(r) \/ RerankTokenizeRaise(r) \/ MdlReturn(r) \/ MdlRaise(r)

FairSpec == Spec /\ \A r \in Reqs : WF_vars(Running(r))

(* ------------------------------- claims -------------------------------- *)
Terminal(r) == pc[r] \in {"done", "failed"}
NumPassages(r) == Len(item[r].passages)

IsPermutation(order, n) ==
    /\ Len(order) = n
    /\ \A k \in 0..(n - 1) :
        Cardinality({i \in 1..Len(order) : order[i] = k}) = 1

\* C1: a request with n >= 1 passages that is answered gets an order of
\* length n in which every index 0..n-1 occurs exactly once.
C1_OrderIsPermutation ==
    \A r \in Reqs :
        (pc[r] = "done" /\ NumPassages(r) >= 1)
            => IsPermutation(resp[r].order, NumPassages(r))

C1_Witness ==
    \E r \in Reqs :
        /\ pc[r] = "done"
        /\ NumPassages(r) = MaxPassages
        /\ resp[r].scores[1] = resp[r].scores[2]
        /\ IsPermutation(resp[r].order, MaxPassages)

\* C2: in every returned order, an earlier position holds either a strictly
\* greater score, or an equal score and a smaller original index.
C2_DescendingStable ==
    \A r \in Reqs :
        pc[r] = "done" =>
            \A a, b \in 1..Len(resp[r].order) :
                a < b =>
                    LET x == resp[r].order[a]
                        y == resp[r].order[b]
                        sc == resp[r].scores
                    IN \/ sc[x + 1] > sc[y + 1]
                       \/ (sc[x + 1] = sc[y + 1] /\ x < y)

C2_Witness ==
    /\ \E r \in Reqs :
        /\ pc[r] = "done"
        /\ item[r].passages = <<2, 2>>
        /\ resp[r].scores = <<5, 5>>
        /\ resp[r].order = <<0, 1>>
    /\ \E r \in Reqs :
        /\ pc[r] = "done"
        /\ item[r].passages = <<1, 2>>
        /\ resp[r].scores = <<4, 5>>
        /\ resp[r].order = <<1, 0>>

\* C3: the model is given exactly one row per passage, in passage order, row
\* i made of the request's query and passages[i], and the returned scores
\* have one entry per passage, entry i being the model's logit for
\* (query, passages[i]).
C3_PositionalAlignment ==
    \A r \in Reqs :
        /\ mdlCalled[r] =>
            /\ Len(pairs[r]) = NumPassages(r)
            /\ Len(enc[r]) = NumPassages(r)
            /\ \A i \in 1..NumPassages(r) :
                /\ pairs[r][i] = <<item[r].query, item[r].passages[i]>>
                /\ enc[r][i].text = item[r].query
                /\ enc[r][i].text_pair = item[r].passages[i]
        /\ pc[r] = "done" =>
            /\ Len(resp[r].scores) = NumPassages(r)
            /\ \A i \in 1..NumPassages(r) :
                resp[r].scores[i] =
                    mdl.wq * item[r].query + mdl.wp * item[r].passages[i]

C3_Witness ==
    \E r \in Reqs :
        /\ pc[r] = "done"
        /\ item[r].passages = <<2, 1>>
        /\ resp[r].scores = <<5, 4>>

\* C4: at most one invocation of the model is in progress at any time.
C4_ModelSerialized ==
    Cardinality({r \in Reqs : pc[r] = "inmdl"}) <= 1

\* C5: a request with an empty passages list never has the tokenizer or the
\* model invoked for it and is answered neither with an order/scores result
\* nor with an internal error.
C5_EmptyRejectedFirst ==
    \A r \in Reqs :
        (pc[r] # "idle" /\ item[r].passages = <<>>)
            => /\ ~tokCalled[r]
               /\ ~mdlCalled[r]
               /\ resp[r].status \notin {200, 500}

\* C6: a request whose model invocation failed is answered with the failure
\* and with no order and no scores; and every answer that carries scores
\* carries one per passage.
C6_NoPartialSuccess ==
    \A r \in Reqs :
        /\ pc[r] = "failed" => (resp[r] = ErrorResp /\ nResp[r] = 1)
        /\ resp[r].status = 200 =>
            /\ pc[r] = "done"
            /\ Len(resp[r].scores) = NumPassages(r)
            /\ Len(resp[r].order) = NumPassages(r)

C6_Witness ==
    \E r \in Reqs :
        /\ pc[r] = "failed"
        /\ mdlCalled[r]
        /\ NumPassages(r) = MaxPassages
        /\ resp[r] = ErrorResp

\* C7: under fair scheduling every accepted request is eventually answered,
\* with a result or with a failure, and no request is answered twice.
C7_ResolvesExactlyOnce ==
    /\ \A r \in Reqs :
        (pc[r] = "accepted") ~> (Terminal(r) /\ nResp[r] = 1)
    /\ [](\A r \in Reqs : nResp[r] <= 1 /\ (Terminal(r) <=> nResp[r] = 1))

C7_Witness ==
    /\ \A r \in Reqs : Terminal(r) /\ nResp[r] = 1
    /\ \E r \in Reqs : pc[r] = "failed" /\ mdlCalled[r]
    /\ \E r \in Reqs : pc[r] = "done"

\* C8: every invocation of the model is given at least one row and at most
\* max_batch_size rows.
C8_BatchSizeBounded ==
    \A r \in Reqs :
        pc[r] = "inmdl" => (1 <= Len(enc[r]) /\ Len(enc[r]) <= max_batch_size)

\* C9: the number of requests accepted and not yet executed never exceeds
\* max_queue_depth.
C9_PendingBounded ==
    Cardinality({r \in Reqs : pc[r] = "accepted"}) <= max_queue_depth

\* what a request gets when its handler runs with no other request around
Alone(m, it) == Rerank(m, Tok(Pairs(it)))

\* C10: whatever the interleaving, a request is answered with exactly what it
\* would get alone, and no step changes tok, mdl or model_name.
C10_NoCrossTalk ==
    /\ [](\A r \in Reqs : pc[r] = "done" => resp[r] = Alone(mdl, item[r]))
    /\ [][globals' = globals]_vars

C10_Witness ==
    \E r, s \in Reqs :
        /\ pc[r] = "done" /\ pc[s] = "done"
        /\ item[r].passages = <<1, 2>>
        /\ item[s].passages = <<2>>
        /\ resp[r].scores = <<4, 5>>
        /\ resp[s].scores = <<5>>

====
